---------------------------- MODULE Spec2Model ----------------------------
(***************************************************************************)
(* Transform / Matrix / Camera / Box2 / TextureAtlasRenderer of kiwi.js.   *)
(*                                                                         *)
(* Numbers are exact integers (rationals where a matrix is inverted: the   *)
(* inverse carries its determinant as a common denominator) in place of    *)
(* IEEE doubles.  Rotations are whole quarter turns, so that Math.cos and  *)
(* Math.sin are exactly 1, 0 or -1.                                        *)
(***************************************************************************)
EXTENDS Integers, Sequences, FiniteSets, TLC

(***************************************************************************)
(* Bounds of the model.                                                    *)
(***************************************************************************)
NumNodes == 3
\* longest _children array
MaxChildren == 2
\* pushes on _children arrays, all arrays together
MaxEntries == 3
\* largest coordinate a transform is moved to
MaxCoord == 1
\* largest scale factor
MaxScale == 2
\* largest entry of a matrix that is built directly
MatEntry == 1
\* most runs of quads in the vertex buffer
MaxRuns == 3
\* widest layer of tiles whose every coordinate is looked up
MaxTiles == 3

Nodes == 1..NumNodes
Null == 0
\* the engine's call stack, in frames: deep enough for every acyclic walk
StackLimit == 2 * NumNodes

Min(a, b) == IF a < b THEN a ELSE b

(***************************************************************************)
(* Kiwi.Geom.Point and Kiwi.Geom.Matrix                                    *)
(*    a c tx                                                               *)
(*    b d ty                                                               *)
(***************************************************************************)
Point(x, y) == [x |-> x, y |-> y]

Matrix(a, b, c, d, tx, ty) == [a |-> a, b |-> b, c |-> c, d |-> d, tx |-> tx, ty |-> ty]

identity == Matrix(1, 0, 0, 1, 0, 0)

multiplyMatrixSwapped(m, b) ==
    Matrix(b.a * m.a + b.c * m.b,
           b.b * m.a + b.d * m.b,
           b.a * m.c + b.c * m.d,
           b.b * m.c + b.d * m.d,
           b.a * m.tx + b.c * m.ty + b.tx,
           b.b * m.tx + b.d * m.ty + b.ty)

\* this.multiplyMatrix(b), with m for this
multiplyMatrix(m, b) ==
    Matrix(m.a * b.a + m.c * b.b,
           m.b * b.a + m.d * b.b,
           m.a * b.c + m.c * b.d,
           m.b * b.c + m.d * b.d,
           m.a * b.tx + m.c * b.ty + m.tx,
           m.b * b.tx + m.d * b.ty + m.ty)

transformPoint(m, pt) ==
    Point(m.a * pt.x + m.c * pt.y + m.tx,
          m.b * pt.x + m.d * pt.y + m.ty)

\* a matrix with fractional entries: the six numbers of m, each divided by n
Over(m, n) == [a |-> m.a, b |-> m.b, c |-> m.c, d |-> m.d, tx |-> m.tx, ty |-> m.ty, n |-> n]

invertKeepTranslation(m) ==
    Over(Matrix(m.d, -m.b, -m.c, m.a,
                -m.tx * (m.a * m.d - m.b * m.c),
                -m.ty * (m.a * m.d - m.b * m.c)),
         m.a * m.d - m.b * m.c)

\* Matrix.invert on a matrix of whole numbers: every entry is divided by the
\* determinant n, with no test for n = 0
invert(m) ==
    Over(Matrix(m.d, -m.b, -m.c, m.a,
                m.c * m.ty - m.d * m.tx,
                -(m.a * m.ty - m.b * m.tx)),
         m.a * m.d - m.b * m.c)

(***************************************************************************)
(* Arithmetic on matrices with fractional entries.  Over(m, 0) stands for  *)
(* a matrix none of whose entries is finite: an entry is +Infinity where   *)
(* its number is 1, -Infinity where it is -1 and NaN where it is 0.  A     *)
(* determinant of zero is +0 for the matrices inverted here, which have no *)
(* negative entries.                                                       *)
(***************************************************************************)
Sign(x) == IF x > 0 THEN 1 ELSE IF x < 0 THEN -1 ELSE 0
Abs(x) == IF x < 0 THEN -x ELSE x

RECURSIVE Gcd(_, _)
Gcd(x, y) == IF y = 0 THEN Abs(x) ELSE Gcd(y, x % Abs(y))

\* the one way to write a matrix with fractional entries: lowest terms and a
\* positive n, or signs over 0
Normal(mo) ==
    IF mo.n = 0
    THEN Over(Matrix(Sign(mo.a), Sign(mo.b), Sign(mo.c), Sign(mo.d), Sign(mo.tx), Sign(mo.ty)), 0)
    ELSE LET g == Sign(mo.n) * Gcd(mo.a, Gcd(mo.b, Gcd(mo.c, Gcd(mo.d, Gcd(mo.tx, Gcd(mo.ty, mo.n))))))
         IN Over(Matrix(mo.a \div g, mo.b \div g, mo.c \div g, mo.d \div g,
                        mo.tx \div g, mo.ty \div g), mo.n \div g)

\* an entry num / n as finite or not, with its sign
Entry(num, n) == IF n = 0 THEN [fin |-> FALSE, s |-> Sign(num)]
                 ELSE [fin |-> TRUE, s |-> Sign(num) * Sign(n)]
\* x * y and x + y where the result is not finite: 0 * Infinity and
\* Infinity - Infinity are NaN, and NaN stays NaN
Times(x, y) == [fin |-> x.fin /\ y.fin, s |-> x.s * y.s]
Plus(x, y) == IF x.fin THEN y
              ELSE IF y.fin THEN x
              ELSE IF x.s = y.s THEN x ELSE [fin |-> FALSE, s |-> 0]

\* transformPoint of a matrix with fractional entries: x / n and y / n; of a
\* matrix whose entries are not finite, the sign of each coordinate
transformPointOver(m, pt) ==
    IF m.n # 0
    THEN [x |-> m.a * pt.x + m.c * pt.y + m.tx,
          y |-> m.b * pt.x + m.d * pt.y + m.ty,
          n |-> m.n]
    ELSE LET M(f) == Entry(f, 0)
             X == Entry(pt.x, 1)
             Y == Entry(pt.y, 1)
         IN [x |-> Plus(Plus(Times(M(m.a), X), Times(M(m.c), Y)), M(m.tx)).s,
             y |-> Plus(Plus(Times(M(m.b), X), Times(M(m.d), Y)), M(m.ty)).s,
             n |-> 0]

\* num / n < v and num / n > v for a finite v: -Infinity is below v,
\* +Infinity is above v, and NaN is neither
Below(num, n, v) == IF n > 0 THEN num < v * n ELSE IF n < 0 THEN num > v * n ELSE num < 0
Above(num, n, v) == IF n > 0 THEN num > v * n ELSE IF n < 0 THEN num < v * n ELSE num > 0

\* the same entries after a division by -0 instead of +0
Flip(mo) == Over(Matrix(-mo.a, -mo.b, -mo.c, -mo.d, -mo.tx, -mo.ty), mo.n)

invertOverLateTx(mo) ==
    IF mo.n = 0 THEN Over(Matrix(0, 0, 0, 0, 0, 0), 0)
    ELSE Normal(Over(Matrix(mo.d * mo.n, (-mo.b) * mo.n, (-mo.c) * mo.n, mo.a * mo.n,
                            mo.c * mo.ty - mo.d * mo.tx,
                            -(mo.a * mo.ty - mo.b * (mo.c * mo.ty - mo.d * mo.tx))),
                     mo.a * mo.d - mo.b * mo.c))

\* Matrix.invert on a matrix with fractional entries.  With a1 = a / n and so
\* on, the determinant is (a * d - b * c) / (n * n); entries that are not
\* finite give NaN everywhere.
invertOver(mo) ==
    IF mo.n = 0 THEN Over(Matrix(0, 0, 0, 0, 0, 0), 0)
    ELSE Normal(Over(Matrix(mo.d * mo.n, (-mo.b) * mo.n, (-mo.c) * mo.n, mo.a * mo.n,
                            mo.c * mo.ty - mo.d * mo.tx,
                            -(mo.a * mo.ty - mo.b * mo.tx)),
                     mo.a * mo.d - mo.b * mo.c))

\* p.multiplyMatrix(q) on matrices with fractional entries
multiplyOver(p, q) ==
    IF p.n # 0 /\ q.n # 0
    THEN Normal(Over(Matrix(p.a * q.a + p.c * q.b,
                            p.b * q.a + p.d * q.b,
                            p.a * q.c + p.c * q.d,
                            p.b * q.c + p.d * q.d,
                            p.a * q.tx + p.c * q.ty + p.tx * q.n,
                            p.b * q.tx + p.d * q.ty + p.ty * q.n),
                     p.n * q.n))
    ELSE LET P(f) == Entry(f, p.n)
             Q(f) == Entry(f, q.n)
         IN Over(Matrix(Plus(Times(P(p.a), Q(q.a)), Times(P(p.c), Q(q.b))).s,
                        Plus(Times(P(p.b), Q(q.a)), Times(P(p.d), Q(q.b))).s,
                        Plus(Times(P(p.a), Q(q.c)), Times(P(p.c), Q(q.d))).s,
                        Plus(Times(P(p.b), Q(q.c)), Times(P(p.d), Q(q.d))).s,
                        Plus(Plus(Times(P(p.a), Q(q.tx)), Times(P(p.c), Q(q.ty))), P(p.tx)).s,
                        Plus(Plus(Times(P(p.b), Q(q.tx)), Times(P(p.d), Q(q.ty))), P(p.ty)).s),
                 0)

\* Math.cos and Math.sin of a rotation of q quarter turns
Cos(q) == CASE q % 4 = 0 -> 1 [] q % 4 = 1 -> 0 [] q % 4 = 2 -> -1 [] OTHER -> 0
Sin(q) == CASE q % 4 = 0 -> 0 [] q % 4 = 1 -> 1 [] q % 4 = 2 -> 0 [] OTHER -> -1

\* Kiwi.Utils.GameMath.degreesToRadians, in quarter turns
degreesToRadians(deg) == deg \div 90

(***************************************************************************)
(* Kiwi.Geom.Transform: one record of fields per node                      *)
(***************************************************************************)
VARIABLES
    xy,            \* _xy
    scale,         \* _scale
    rotation,      \* _rotation, in quarter turns
    origin,        \* _origin
    pivotPoint,    \* _pivotPoint
    dirty,         \* _dirty
    parent,        \* _parent, Null for null
    children,      \* _children, in push order
    matrix,        \* _matrix
    cachedConcatenatedMatrix,
    matA, matB,    \* two Matrix instances built with new Matrix(a, b, c, d, tx, ty)
    matInv,        \* a Matrix instance that invert() is called on: fractional entries
    camDirty,      \* Camera: _dirty of Transformable
    scratchMatrices,   \* Camera: _scratchMatrices, normal and inverted
    width, height,     \* Camera: width and height
    boxDirty,      \* Box2: _dirty
    boxOffset,     \* Box2: _offset
    boxDimensions, \* Box2: _dimensions
    invertedTransformMatrix,   \* Box2: _invertedTransformMatrix
    items,         \* TextureAtlasRenderer: _vertexBuffer.items, as runs of quads
    alpha,         \* Entity: _alpha
    entity,        \* Entity: atlas (its cells), _cellIndex, width and height
    layer,         \* tile layer: tileWidth, tileHeight, width, height, offset, data
    stage,         \* game.stage: width and height
    bounds,        \* tile layer: _startX, _startY, _maxX, _maxY
    last           \* the call that ran last and what it did and returned

tvars == <<xy, scale, rotation, origin, pivotPoint, dirty, parent, children,
           matrix, cachedConcatenatedMatrix>>
mvars == <<matA, matB, matInv>>
cvars == <<camDirty, scratchMatrices, width, height>>
bvars == <<boxDirty, boxOffset, boxDimensions, invertedTransformMatrix>>
rvars == <<items, alpha, entity>>
lvars == <<layer, stage, bounds>>

vars == <<tvars, mvars, cvars, bvars, rvars, lvars, last>>

performTransformationScaleFirst(pos, sc, rot, org, piv) ==
    LET cos == Cos(rot)
        sin == Sin(rot)
    IN Matrix(cos * sc.x,
              (-sin) * sc.x,
              sin * sc.y,
              cos * sc.y,
              ((((-piv.x) * cos + (-piv.y) * sin + piv.x) * sc.x) + ((-org.x) * sc.x + org.x)) + pos.x,
              ((((-piv.x) * (-sin) + (-piv.y) * cos + piv.y) * sc.y) + ((-org.y) * sc.y + org.y)) + pos.y)

\* Transform._performTransformation: the value _matrix is set to
performTransformation(pos, sc, rot, org, piv) ==
    LET cos == Cos(rot)
        sin == Sin(rot)
    IN Matrix(cos * sc.x,
              (-sin) * sc.y,
              sin * sc.x,
              cos * sc.y,
              ((((-piv.x) * cos + (-piv.y) * sin + piv.x) * sc.x) + ((-org.x) * sc.x + org.x)) + pos.x,
              ((((-piv.x) * (-sin) + (-piv.y) * cos + piv.y) * sc.y) + ((-org.y) * sc.y + org.y)) + pos.y)

Local(n) == performTransformation(xy[n], scale[n], rotation[n], origin[n], pivotPoint[n])

NoVisits == [n \in Nodes |-> 0]

(***************************************************************************)
(* set dirty(true): mark this node, then every entry of _children other    *)
(* than the node itself, recursively.  A walk that goes deeper than the    *)
(* call stack ends in a RangeError that unwinds the whole call: the flags  *)
(* set so far stay set and the remaining entries are never visited.        *)
(* acc.v counts the calls of the setter per node (2 for two or more).      *)
(***************************************************************************)
RECURSIVE setDirtyTrue(_, _, _, _), setDirtyEach(_, _, _, _, _)
setDirtyTrue(ch, n, depth, acc) ==
    IF acc.over THEN acc
    ELSE IF depth > StackLimit THEN [acc EXCEPT !.over = TRUE]
    ELSE setDirtyEach(ch, n, 1, depth,
                      [acc EXCEPT !.d[n] = TRUE, !.v[n] = Min(@ + 1, 2)])

setDirtyEach(ch, n, i, depth, acc) ==
    IF acc.over \/ i > Len(ch[n]) THEN acc
    ELSE LET e == ch[n][i]
         IN setDirtyEach(ch, n, i + 1, depth,
                         IF e # n THEN setDirtyTrue(ch, e, depth + 1, acc) ELSE acc)

\* this.dirty = true on node n with the child lists ch
Muddy(ch, n) == setDirtyTrue(ch, n, 1, [d |-> dirty, v |-> NoVisits, over |-> FALSE])

(***************************************************************************)
(* Transform.checkAncestor: the body is commented out                      *)
(***************************************************************************)
RECURSIVE isSelfOrAncestor(_, _, _)
isSelfOrAncestor(t, v, fuel) ==
    IF v = Null \/ fuel = 0 THEN FALSE
    ELSE IF v = t THEN TRUE
    ELSE isSelfOrAncestor(t, parent[v], fuel - 1)

checkAncestor(t, v) == FALSE

(***************************************************************************)
(* Transform.getConcatenatedMatrix on node n.  st.rebuilt: the nodes whose *)
(* _performTransformation ran; st.alloc: the nodes whose cached matrix is  *)
(* a new instance.                                                         *)
(***************************************************************************)
\* this._parent.getConcatenatedMatrix().multiplyMatrix(this._cachedConcatenatedMatrix)
concatWithParent(parentMatrix, localMatrix) == multiplyMatrix(parentMatrix, localMatrix)

RECURSIVE getConcatenated(_, _, _)
getConcatenated(n, depth, st) ==
    IF depth > StackLimit THEN [st EXCEPT !.over = TRUE]
    ELSE IF ~st.d[n] THEN st
    ELSE LET s1 == [st EXCEPT !.m[n] = Local(n), !.c[n] = Local(n),
                              !.rebuilt = @ \cup {n}]
         IN IF parent[n] = Null THEN [s1 EXCEPT !.d[n] = FALSE]
            ELSE LET s2 == getConcatenated(parent[n], depth + 1, s1)
                 IN IF s2.over THEN s2
                    ELSE [s2 EXCEPT !.c[n] = concatWithParent(s2.c[parent[n]], s2.c[n]),
                                    !.d[n] = FALSE,
                                    !.alloc = @ \cup {n}]

Clean(n) == getConcatenated(n, 1, [m |-> matrix, c |-> cachedConcatenatedMatrix, d |-> dirty,
                                   over |-> FALSE, rebuilt |-> {}, alloc |-> {}])

(***************************************************************************)
(* The state after construction: setTransform(0, 0, 1, 1, 0, 0, 0)         *)
(***************************************************************************)
NoValue == [none |-> TRUE]

\* what is recorded of a call: the method, its receiver and argument, whether
\* it ended in a RangeError, the calls of set dirty(true) per node, the result
Call(op, n, over, visits) ==
    [op |-> op, node |-> n, threw |-> over, visits |-> visits,
     arg |-> NoValue, ret |-> NoValue, logged |-> <<>>]

TransformInit ==
    /\ xy = [n \in Nodes |-> Point(0, 0)]
    /\ scale = [n \in Nodes |-> Point(1, 1)]
    /\ rotation = [n \in Nodes |-> 0]
    /\ origin = [n \in Nodes |-> Point(0, 0)]
    /\ pivotPoint = [n \in Nodes |-> Point(0, 0)]
    /\ dirty = [n \in Nodes |-> TRUE]
    /\ parent = [n \in Nodes |-> Null]
    /\ children = [n \in Nodes |-> <<>>]
    /\ matrix = [n \in Nodes |-> identity]
    /\ cachedConcatenatedMatrix = [n \in Nodes |-> identity]

\* the tail of every field mutator: this.dirty = true
Invalidate(op, n) ==
    LET r == Muddy(children, n)
    IN /\ dirty' = r.d
       /\ last' = Call(op, n, r.over, r.v)
       /\ UNCHANGED <<parent, children, matrix, cachedConcatenatedMatrix>>
       /\ UNCHANGED <<mvars, cvars, bvars, rvars, lvars>>

\* origin = val
SetOrigin(n, val) ==
    /\ origin' = [origin EXCEPT ![n] = val]
    /\ Invalidate("set", n)
    /\ UNCHANGED <<xy, scale, rotation, pivotPoint>>

\* setOrigin(x, y)
SetOriginXY(n, x, y) ==
    /\ origin' = [origin EXCEPT ![n].x = x, ![n].y = y]
    /\ Invalidate("set", n)
    /\ UNCHANGED <<xy, scale, rotation, pivotPoint>>

\* pivotPoint = val
SetPivotPoint(n, val) ==
    /\ pivotPoint' = [pivotPoint EXCEPT ![n] = val]
    /\ Invalidate("set", n)
    /\ UNCHANGED <<xy, scale, rotation, origin>>

SetScaleX(n, value) ==
    /\ scale' = [scale EXCEPT ![n].x = value]
    /\ Invalidate("set", n)
    /\ UNCHANGED <<xy, rotation, origin, pivotPoint>>

SetScaleY(n, value) ==
    /\ scale' = [scale EXCEPT ![n].y = value]
    /\ Invalidate("set", n)
    /\ UNCHANGED <<xy, rotation, origin, pivotPoint>>

\* scale = val with a number: val.x is undefined and the else branch runs
SetScale(n, val) ==
    /\ scale' = [scale EXCEPT ![n].x = val, ![n].y = val]
    /\ Invalidate("set", n)
    /\ UNCHANGED <<xy, rotation, origin, pivotPoint>>

\* xy = val
SetXYPoint(n, val) ==
    /\ xy' = [xy EXCEPT ![n] = val]
    /\ Invalidate("set", n)
    /\ UNCHANGED <<scale, rotation, origin, pivotPoint>>

SetX(n, value) ==
    /\ xy' = [xy EXCEPT ![n].x = value]
    /\ Invalidate("set", n)
    /\ UNCHANGED <<scale, rotation, origin, pivotPoint>>

SetY(n, value) ==
    /\ xy' = [xy EXCEPT ![n].y = value]
    /\ Invalidate("set", n)
    /\ UNCHANGED <<scale, rotation, origin, pivotPoint>>

\* setXY(x, y)
SetXY(n, x, y) ==
    /\ xy' = [xy EXCEPT ![n] = Point(x, y)]
    /\ Invalidate("set", n)
    /\ UNCHANGED <<scale, rotation, origin, pivotPoint>>

\* rotation = value, in degrees
SetRotation(n, value) ==
    /\ rotation' = [rotation EXCEPT ![n] = degreesToRadians(value)]
    /\ Invalidate("set", n)
    /\ UNCHANGED <<xy, scale, origin, pivotPoint>>

SetRotationRad(n, value) ==
    /\ rotation' = [rotation EXCEPT ![n] = value]
    /\ Invalidate("set", n)
    /\ UNCHANGED <<xy, scale, origin, pivotPoint>>

Translate(n, point) ==
    /\ xy' = [xy EXCEPT ![n].x = @ + point.x, ![n].y = @ + point.y]
    /\ Invalidate("set", n)
    /\ UNCHANGED <<scale, rotation, origin, pivotPoint>>

SetTransform(n, x, y, scaleX, scaleY, rot, originX, originY) ==
    /\ xy' = [xy EXCEPT ![n].x = x, ![n].y = y]
    /\ scale' = [scale EXCEPT ![n].x = scaleX, ![n].y = scaleY]
    /\ rotation' = [rotation EXCEPT ![n] = rot]
    /\ origin' = [origin EXCEPT ![n].x = originX, ![n].y = originY]
    /\ Invalidate("set", n)
    /\ UNCHANGED pivotPoint

RECURSIVE EntriesUpTo(_)
EntriesUpTo(k) == IF k = 0 THEN 0 ELSE Len(children[k]) + EntriesUpTo(k - 1)

Entries == EntriesUpTo(NumNodes)

\* parent = value: the push on value._children comes before the check
SetParent(n, value) ==
    /\ value # Null => (Len(children[value]) < MaxChildren /\ Entries < MaxEntries)
    /\ LET ch == IF value # Null THEN [children EXCEPT ![value] = Append(@, n)]
                 ELSE children
       IN /\ children' = ch
          /\ IF ~checkAncestor(n, value)
             THEN LET r == Muddy(ch, n)
                  IN /\ parent' = [parent EXCEPT ![n] = value]
                     /\ dirty' = r.d
                     /\ last' = Call("parent", n, r.over, r.v)
             ELSE /\ UNCHANGED <<parent, dirty>>
                  /\ last' = Call("refused", n, FALSE, NoVisits)
    /\ UNCHANGED <<xy, scale, rotation, origin, pivotPoint, matrix, cachedConcatenatedMatrix>>
    /\ UNCHANGED <<mvars, cvars, bvars, rvars, lvars>>

GetConcatenatedMatrix(n) ==
    LET r == Clean(n)
    IN /\ matrix' = r.m
       /\ cachedConcatenatedMatrix' = r.c
       /\ dirty' = r.d
       /\ last' = [Call("read", n, r.over, NoVisits) EXCEPT
                      !.ret = IF r.over THEN NoValue ELSE r.c[n]]
       /\ UNCHANGED <<xy, scale, rotation, origin, pivotPoint, parent, children>>
       /\ UNCHANGED <<mvars, cvars, bvars, rvars, lvars>>

(***************************************************************************)
(* Kiwi.Camera, a Transformable: its transform is the node CamNode         *)
(***************************************************************************)
CamNode == 1
\* the transform the camera is put under
CamParent == 2

\* Transform.setPivotPoint(x, y)
SetPivotPointXY(n, x, y) ==
    /\ pivotPoint' = [pivotPoint EXCEPT ![n].x = x, ![n].y = y]
    /\ Invalidate("set", n)
    /\ UNCHANGED <<xy, scale, rotation, origin>>

\* new Camera(game, id, name, x, y, w, h): setXY(x, y), then _updatedStageSize
CameraInit(x, y, w, h) ==
    /\ xy = [n \in Nodes |-> IF n = CamNode THEN Point(x, y) ELSE Point(0, 0)]
    /\ scale = [n \in Nodes |-> Point(1, 1)]
    /\ rotation = [n \in Nodes |-> 0]
    /\ origin = [n \in Nodes |-> IF n = CamNode THEN Point((-w) \div 2, (-h) \div 2) ELSE Point(0, 0)]
    /\ pivotPoint = [n \in Nodes |-> IF n = CamNode THEN Point((-w) \div 2, (-h) \div 2) ELSE Point(0, 0)]
    /\ dirty = [n \in Nodes |-> TRUE]
    /\ parent = [n \in Nodes |-> Null]
    /\ children = [n \in Nodes |-> <<>>]
    /\ matrix = [n \in Nodes |-> identity]
    /\ cachedConcatenatedMatrix = [n \in Nodes |-> identity]
    /\ camDirty = TRUE
    /\ scratchMatrices = [normal |-> identity, inverted |-> Over(identity, 1)]
    /\ width = w
    /\ height = h

\* _updatedStageSize(w, h): a RangeError in the cascade of setOrigin ends the
\* handler before setPivotPoint
UpdatedStageSize(w, h) ==
    LET r == Muddy(children, CamNode)
    IN /\ width' = w
       /\ height' = h
       /\ origin' = [origin EXCEPT ![CamNode] = Point((-w) \div 2, (-h) \div 2)]
       /\ pivotPoint' = IF r.over THEN pivotPoint
                        ELSE [pivotPoint EXCEPT ![CamNode] = Point((-w) \div 2, (-h) \div 2)]
       /\ dirty' = r.d
       /\ last' = [Call("resize", CamNode, r.over,
                        IF r.over THEN r.v ELSE [n \in Nodes |-> Min(2 * r.v[n], 2)])
                      EXCEPT !.arg = [width |-> w, height |-> h]]
       /\ UNCHANGED <<xy, scale, rotation, parent, children, matrix, cachedConcatenatedMatrix,
                      camDirty, scratchMatrices>>
       /\ UNCHANGED <<mvars, bvars, rvars, lvars>>

transformPointInPlaceLateX(m, pt) ==
    LET x == m.a * pt.x + m.c * pt.y + m.tx
    IN [x |-> x, y |-> m.b * x + m.d * pt.y + m.ty]

\* Matrix.transformPointInPlace: pt.x and pt.y after the call, both computed
\* from the x and y read before either is written
transformPointInPlace(m, pt) ==
    LET x == pt.x
        y == pt.y
    IN [x |-> m.a * x + m.c * y + m.tx, y |-> m.b * x + m.d * y + m.ty]

\* the same for a matrix with fractional entries
transformPointOverInPlace(m, pt) ==
    LET old == pt
    IN transformPointOver(m, old)

\* if (this.dirty) this.clean(), then the point mapped by the inverted scratch
\* matrix (stage to world) or by the normal one (world to stage): a new point
\* from transformPoint, or pt itself after transformPointInPlace
CameraRead(op, pt, copy) ==
    LET f(sm) == IF op = "transformStageToWorld"
                 THEN IF copy THEN transformPointOver(sm.inverted, pt)
                      ELSE transformPointOverInPlace(sm.inverted, pt)
                 ELSE IF copy THEN transformPoint(sm.normal, pt)
                      ELSE transformPointInPlace(sm.normal, pt)
        r == Clean(CamNode)
        threw == camDirty /\ r.over
        sm == IF camDirty /\ ~r.over
              THEN [normal |-> r.c[CamNode], inverted |-> invert(r.c[CamNode])]
              ELSE scratchMatrices
    IN /\ matrix' = IF camDirty THEN r.m ELSE matrix
       /\ cachedConcatenatedMatrix' = IF camDirty THEN r.c ELSE cachedConcatenatedMatrix
       /\ dirty' = IF camDirty THEN r.d ELSE dirty
       /\ scratchMatrices' = sm
       /\ camDirty' = (camDirty /\ r.over)
       /\ last' = [Call(op, CamNode, threw, NoVisits) EXCEPT
                      !.arg = [pt |-> pt, copy |-> copy,
                               after |-> IF copy \/ threw THEN pt ELSE f(sm)],
                      !.ret = IF threw THEN NoValue ELSE f(sm)]
       /\ UNCHANGED <<xy, scale, rotation, origin, pivotPoint, parent, children, width, height>>
       /\ UNCHANGED <<mvars, bvars, rvars, lvars>>

TransformStageToWorld(pt, copy) == CameraRead("transformStageToWorld", pt, copy)

TransformWorldToStage(pt, copy) == CameraRead("transformWorldToStage", pt, copy)

\* transformPoint of a matrix of whole numbers on a point with fractional
\* coordinates x / n and y / n
transformPointFrac(m, pt) ==
    [x |-> m.a * pt.x + m.c * pt.y + m.tx * pt.n,
     y |-> m.b * pt.x + m.d * pt.y + m.ty * pt.n,
     n |-> pt.n]

\* the point one of the two calls returned, handed to the other one with
\* nothing done to the camera in between: transformStageToWorld(
\* transformWorldToStage(p)) and transformWorldToStage(transformStageToWorld(p))
TransformBack ==
    /\ last.op \in {"transformStageToWorld", "transformWorldToStage"}
    /\ ~last.threw
    /\ LET pt == last.ret
           f(sm) == IF last.op = "transformWorldToStage"
                    THEN transformPointOver(sm.inverted, pt)
                    ELSE transformPointFrac(sm.normal, pt)
           r == Clean(CamNode)
           threw == camDirty /\ r.over
           sm == IF camDirty /\ ~r.over
                 THEN [normal |-> r.c[CamNode], inverted |-> invert(r.c[CamNode])]
                 ELSE scratchMatrices
       IN /\ matrix' = IF camDirty THEN r.m ELSE matrix
          /\ cachedConcatenatedMatrix' = IF camDirty THEN r.c ELSE cachedConcatenatedMatrix
          /\ dirty' = IF camDirty THEN r.d ELSE dirty
          /\ scratchMatrices' = sm
          /\ camDirty' = (camDirty /\ r.over)
          /\ last' = [Call(IF last.op = "transformWorldToStage" THEN "worldToStageToWorld"
                           ELSE "stageToWorldToStage", CamNode, threw, NoVisits) EXCEPT
                         !.arg = [pt |-> pt, from |-> last.arg.pt],
                         !.ret = IF threw THEN NoValue ELSE f(sm)]
          /\ UNCHANGED <<xy, scale, rotation, origin, pivotPoint, parent, children, width, height>>
          /\ UNCHANGED <<mvars, bvars, rvars, lvars>>

(***************************************************************************)
(* Kiwi.Components.Box2 on an owner whose transform is the node BoxOwner   *)
(***************************************************************************)
BoxOwner == 3
\* the transform the owner is put under
OwnerParent == 2

\* new Box2(owner, offsetX, offsetY, w, h)
BoxInit(offsetX, offsetY, w, h) ==
    /\ boxOffset = Point(offsetX, offsetY)
    /\ boxDimensions = Point(w, h)
    /\ boxDirty = TRUE
    /\ invertedTransformMatrix = NoValue

inHitboxNotOutside(localPt, offset, dimensions) ==
    LET AtMost(num, v) == IF localPt.n # 0 THEN ~Above(num, localPt.n, v) ELSE num < 0
        AtLeast(num, v) == IF localPt.n # 0 THEN ~Below(num, localPt.n, v) ELSE num > 0
    IN /\ ~AtMost(localPt.x, offset.x)
       /\ ~AtLeast(localPt.x, dimensions.x)
       /\ ~AtMost(localPt.y, offset.y)
       /\ ~AtLeast(localPt.y, dimensions.y)

\* the value check() returns for the local point localPt
inHitbox(localPt, offset, dimensions) ==
    /\ Above(localPt.x, localPt.n, offset.x)
    /\ Below(localPt.x, localPt.n, dimensions.x)
    /\ Above(localPt.y, localPt.n, offset.y)
    /\ Below(localPt.y, localPt.n, dimensions.y)

\* the matrix clean() stores: the inverse of the owner's concatenated matrix.
\* A determinant of zero is +0 or -0, which the whole numbers here do not
\* tell apart, so the infinities in the inverse have either sign.
invertedTransforms(m) ==
    IF invert(m).n = 0 THEN {invert(m), Flip(invert(m))} ELSE {invert(m)}

\* check(pt): clean() if _dirty, which nothing ever sets to false
Check(pt) ==
    LET r == Clean(BoxOwner)
        threw == boxDirty /\ r.over
    IN \E inv \in IF boxDirty /\ ~r.over THEN invertedTransforms(r.c[BoxOwner])
                  ELSE {invertedTransformMatrix} :
       /\ matrix' = IF boxDirty THEN r.m ELSE matrix
       /\ cachedConcatenatedMatrix' = IF boxDirty THEN r.c ELSE cachedConcatenatedMatrix
       /\ dirty' = IF boxDirty THEN r.d ELSE dirty
       /\ invertedTransformMatrix' = inv
       /\ last' = [Call("check", BoxOwner, threw, NoVisits) EXCEPT
                      !.arg = pt,
                      !.ret = IF threw THEN NoValue
                              ELSE inHitbox(transformPointOver(inv, pt), boxOffset, boxDimensions)]
       /\ UNCHANGED <<xy, scale, rotation, origin, pivotPoint, parent, children,
                      boxDirty, boxOffset, boxDimensions>>
       /\ UNCHANGED <<mvars, cvars, rvars, lvars>>

(***************************************************************************)
(* Kiwi.Renderers.TextureAtlasRenderer and the entity it batches, whose    *)
(* transform is the node EntityNode.  The array _vertexBuffer.items is     *)
(* kept as runs: run.repeat copies of the 20 numbers run.quad.             *)
(***************************************************************************)
maxItems == 1000
bufferItemSize == 5
vertsPerQuad == 6
EntityNode == 3
EntityParent == 2

\* _generateIndices(numQuads).length: six indices are pushed per quad
generateIndicesLength(numQuads) == numQuads * 6

\* this._indexBuffer: the number of indices the constructor puts there
indexBufferLength == generateIndicesLength(maxItems * vertsPerQuad)

\* entity.atlas.cells[entity.cellIndex]
cell == [x |-> 0, y |-> 0, w |-> 32, h |-> 32]

\* atlas.cells of an atlas with two cells
cells == [i \in 0..1 |-> IF i = 0 THEN cell ELSE [x |-> 32, y |-> 0, w |-> 16, h |-> 48]]

\* new Entity(state, x, y): no atlas, _cellIndex 0, width and height 0
Entity == [hasAtlas |-> FALSE, atlas |-> <<>>, cellIndex |-> 0, width |-> 0, height |-> 0]

\* an entity with the atlas of two cells, showing the first
Sprite == [hasAtlas |-> TRUE, atlas |-> cells, cellIndex |-> 0, width |-> cell.w,
           height |-> cell.h]

\* Kiwi.Log.error(...) of the cellIndex setter
NoSuchCell ==
    <<"Could not the set the cellIndex of a Entity, to cell that does not exist on its TextureAtlas.",
      "#entity", "#cellIndex">>

SetCellIndexBeforeTest(val) ==
    /\ IF entity.hasAtlas
       THEN IF val \in DOMAIN entity.atlas
            THEN /\ entity' = [entity EXCEPT !.cellIndex = val,
                                             !.width = entity.atlas[val].w,
                                             !.height = entity.atlas[val].h]
                 /\ last' = [Call("cellIndex", EntityNode, FALSE, NoVisits) EXCEPT !.arg = val]
            ELSE /\ entity' = [entity EXCEPT !.cellIndex = val]
                 /\ last' = [Call("cellIndex", EntityNode, FALSE, NoVisits) EXCEPT
                                !.arg = val, !.logged = <<NoSuchCell>>]
       ELSE /\ entity' = entity
            /\ last' = [Call("cellIndex", EntityNode, FALSE, NoVisits) EXCEPT !.arg = val]
    /\ UNCHANGED <<tvars, items, alpha, mvars, cvars, bvars, lvars>>

\* entity.cellIndex = val
SetCellIndex(val) ==
    /\ IF entity.hasAtlas
       THEN IF val \in DOMAIN entity.atlas
            THEN /\ entity' = [entity EXCEPT !.cellIndex = val,
                                             !.width = entity.atlas[val].w,
                                             !.height = entity.atlas[val].h]
                 /\ last' = [Call("cellIndex", EntityNode, FALSE, NoVisits) EXCEPT !.arg = val]
            ELSE /\ entity' = entity
                 /\ last' = [Call("cellIndex", EntityNode, FALSE, NoVisits) EXCEPT
                                !.arg = val, !.logged = <<NoSuchCell>>]
       ELSE /\ entity' = entity
            /\ last' = [Call("cellIndex", EntityNode, FALSE, NoVisits) EXCEPT !.arg = val]
    /\ UNCHANGED <<tvars, items, alpha, mvars, cvars, bvars, lvars>>

\* entity.width = value
SetWidth(value) ==
    /\ entity' = [entity EXCEPT !.width = value]
    /\ last' = [Call("width", EntityNode, FALSE, NoVisits) EXCEPT !.arg = value]
    /\ UNCHANGED <<tvars, items, alpha, mvars, cvars, bvars, lvars>>

\* entity.height = value
SetHeight(value) ==
    /\ entity' = [entity EXCEPT !.height = value]
    /\ last' = [Call("height", EntityNode, FALSE, NoVisits) EXCEPT !.arg = value]
    /\ UNCHANGED <<tvars, items, alpha, mvars, cvars, bvars, lvars>>

RECURSIVE itemsLength(_)
itemsLength(it) ==
    IF it = <<>> THEN 0 ELSE Head(it).repeat * Len(Head(it).quad) + itemsLength(Tail(it))

\* the 20 numbers addToBatch pushes for matrix m, cell c and alpha al
batchQuad(m, c, al) ==
    LET pt1 == transformPoint(m, Point(0, 0))
        pt2 == transformPoint(m, Point(c.w, 0))
        pt3 == transformPoint(m, Point(c.w, c.h))
        pt4 == transformPoint(m, Point(0, c.h))
    IN <<pt1.x, pt1.y, c.x, c.y, al,
         pt2.x, pt2.y, c.x + c.w, c.y, al,
         pt3.x, pt3.y, c.x + c.w, c.y + c.h, al,
         pt4.x, pt4.y, c.x, c.y + c.h, al>>

\* entity.alpha = value
SetAlpha(value) ==
    /\ alpha' = IF value <= 0 THEN 0 ELSE IF value > 1 THEN 1 ELSE value
    /\ last' = [Call("alpha", EntityNode, FALSE, NoVisits) EXCEPT !.arg = value]
    /\ UNCHANGED <<tvars, items, entity, mvars, cvars, bvars, lvars>>

\* GLArrayBuffer.clear(): the items of the buffer afterwards
vertexBufferClear(it) == <<>>

ClearUniformOnly ==
    /\ items' = items
    /\ last' = Call("clear", Null, FALSE, NoVisits)
    /\ UNCHANGED <<tvars, alpha, entity, mvars, cvars, bvars, lvars>>

\* clear(gl, params): _vertexBuffer.clear(); the camera matrix uniform is not
\* part of the state
Clear ==
    /\ items' = vertexBufferClear(items)
    /\ last' = Call("clear", Null, FALSE, NoVisits)
    /\ UNCHANGED <<tvars, alpha, entity, mvars, cvars, bvars, lvars>>

AddToBatchMatrixFirst ==
    /\ Len(items) < MaxRuns
    /\ LET r == Clean(EntityNode)
       IN /\ matrix' = r.m
          /\ cachedConcatenatedMatrix' = r.c
          /\ dirty' = r.d
          /\ items' = IF r.over \/ alpha <= 0 THEN items
                      ELSE Append(items, [repeat |-> 1,
                                          quad |-> batchQuad(r.c[EntityNode],
                                                   entity.atlas[entity.cellIndex], alpha)])
          /\ last' = Call("addToBatch", EntityNode, r.over, NoVisits)
          /\ UNCHANGED <<xy, scale, rotation, origin, pivotPoint, parent, children>>
    /\ UNCHANGED <<alpha, entity, mvars, cvars, bvars, lvars>>

\* addToBatch(gl, entity, camera): nothing for alpha <= 0; else the entity's
\* concatenated matrix and the 20 numbers of its cell
AddToBatch ==
    /\ Len(items) < MaxRuns
    /\ IF alpha <= 0
       THEN /\ last' = Call("addToBatch", EntityNode, FALSE, NoVisits)
            /\ UNCHANGED <<tvars, items>>
       ELSE LET r == Clean(EntityNode)
            IN /\ matrix' = r.m
               /\ cachedConcatenatedMatrix' = r.c
               /\ dirty' = r.d
               /\ items' = IF r.over THEN items
                           ELSE Append(items, [repeat |-> 1,
                                               quad |-> batchQuad(r.c[EntityNode],
                                                   entity.atlas[entity.cellIndex], alpha)])
               /\ last' = Call("addToBatch", EntityNode, r.over, NoVisits)
               /\ UNCHANGED <<xy, scale, rotation, origin, pivotPoint, parent, children>>
    /\ UNCHANGED <<alpha, entity, mvars, cvars, bvars, lvars>>

\* concatBatch(vertexItems)
ConcatBatch(vertexItems) ==
    /\ Len(items) < MaxRuns
    /\ items' = items \o vertexItems
    /\ last' = [Call("concatBatch", Null, FALSE, NoVisits) EXCEPT !.arg = vertexItems]
    /\ UNCHANGED <<tvars, alpha, entity, mvars, cvars, bvars, lvars>>

DrawPerVertex ==
    /\ last' = [Call("draw", Null, FALSE, NoVisits) EXCEPT
                   !.ret = (itemsLength(items) \div 5) * 6]
    /\ UNCHANGED <<tvars, items, alpha, entity, mvars, cvars, bvars, lvars>>

\* draw(gl): the index count handed to gl.drawElements.  items.length is a
\* multiple of 20 here, so that the division is exact.
Draw ==
    /\ last' = [Call("draw", Null, FALSE, NoVisits) EXCEPT
                   !.ret = (itemsLength(items) \div 20) * 6]
    /\ UNCHANGED <<tvars, items, alpha, entity, mvars, cvars, bvars, lvars>>

(***************************************************************************)
(* TileMapLayerDynamicOrthogonal, a layer of tiles whose transform is the  *)
(* node LayerNode, rendered through the camera.  The array data is kept as *)
(* its length and the tile type indices it repeats; the camera and the     *)
(* layer here have matrices that can be inverted.                          *)
(***************************************************************************)
LayerNode == 3

\* what a missing key of _data2 and a missing index of tileTypes give
Undefined == [undefined |-> TRUE]

\* tilemap.tileTypes: type 0 has no cell (cellIndex -1), type 1 uses cell 0
tileTypes == [i \in 0..1 |-> [cellIndex |-> i - 1, offset |-> Point(2 * i, 3 * i)]]

\* data[i]
dataAt(L, i) == L.data.types[(i % Len(L.data.types)) + 1]

\* the keys of _data2: the constructor files data[i] under the column
\* i - floor(i / w) * w + offset.x and the row floor(i / w) + offset.y
inData2(L, x, y) ==
    /\ x - L.offset.x >= 0
    /\ x - L.offset.x < L.width
    /\ y - L.offset.y >= 0
    /\ (x - L.offset.x) + (y - L.offset.y) * L.width < L.data.length

data2ByHeight(L, x, y) == dataAt(L, (x - L.offset.x) + (y - L.offset.y) * L.height)

\* this._data2[`${x}|${y}`] for a key that is there
data2(L, x, y) == dataAt(L, (x - L.offset.x) + (y - L.offset.y) * L.width)

\* getTileFromXY(x, y): this.tilemap.tileTypes[this._data2[...]]
getTileFromXY(L, x, y) ==
    IF inData2(L, x, y) /\ data2(L, x, y) \in DOMAIN tileTypes
    THEN tileTypes[data2(L, x, y)]
    ELSE Undefined

\* what the object layer returns for the index -1
NullTile == [null |-> TRUE]

\* reading tileType of a tile the data do not have
TypeError == [error |-> "TypeError"]

\* TileMapLayerOrthogonal.getIndexFromXY(x, y): x + y * width, -1 outside of
\* the layer
getIndexFromXY(L, x, y) ==
    IF x >= 0 /\ x < L.width /\ y >= 0 /\ y < L.height THEN x + y * L.width ELSE -1

\* TileMapObjectLayerOrthogonal.getTileFromXY(x, y) on the layer with the
\* data, width and height of L
getTileFromXYObject(L, x, y) ==
    LET t == getIndexFromXY(L, x, y)
    IN IF t # -1
       THEN IF t >= L.data.length THEN TypeError
            ELSE IF dataAt(L, t) \in DOMAIN tileTypes THEN tileTypes[dataAt(L, t)]
            ELSE Undefined
       ELSE NullTile

\* countTiles(type) of the object layer; type is <<>> when the argument is
\* left out and <<t>> when it is the number t
countTiles(L, type) ==
    Cardinality({i \in 0..(L.data.length - 1) :
                    IF type = <<>> THEN dataAt(L, i) # 0 ELSE type[1] = dataAt(L, i)})

\* Kiwi.Log.log("Not implemented.", '#tilemap')
NotImplemented == <<"Not implemented.", "#tilemap">>

\* randomizeTiles(types, x, y, width, height) of the object layer; types is
\* <<>> when left out
RandomizeTiles(types, x, y, w, h) ==
    /\ last' = [Call("randomizeTiles", LayerNode, FALSE, NoVisits) EXCEPT
                   !.arg = <<types, x, y, w, h>>,
                   !.logged = <<NotImplemented>>]
    /\ UNCHANGED <<tvars, mvars, cvars, bvars, rvars, lvars>>

ReplaceTilesInData(typeA, typeB, x, y, w, h) ==
    /\ layer' = [layer EXCEPT !.data.types =
                     [i \in DOMAIN @ |-> IF @[i] = typeA THEN typeB ELSE @[i]]]
    /\ last' = [Call("replaceTiles", LayerNode, FALSE, NoVisits) EXCEPT
                   !.arg = <<typeA, typeB, x, y, w, h>>,
                   !.logged = <<NotImplemented>>]
    /\ UNCHANGED <<tvars, mvars, cvars, bvars, rvars, stage, bounds>>

\* replaceTiles(typeA, typeB, x, y, width, height) of the object layer
ReplaceTiles(typeA, typeB, x, y, w, h) ==
    /\ last' = [Call("replaceTiles", LayerNode, FALSE, NoVisits) EXCEPT
                   !.arg = <<typeA, typeB, x, y, w, h>>,
                   !.logged = <<NotImplemented>>]
    /\ UNCHANGED <<tvars, mvars, cvars, bvars, rvars, lvars>>

\* swapTiles(typeA, typeB, x, y, width, height) of the object layer
SwapTiles(typeA, typeB, x, y, w, h) ==
    /\ last' = [Call("swapTiles", LayerNode, FALSE, NoVisits) EXCEPT
                   !.arg = <<typeA, typeB, x, y, w, h>>,
                   !.logged = <<NotImplemented>>]
    /\ UNCHANGED <<tvars, mvars, cvars, bvars, rvars, lvars>>

\* layer.getTileFromXY(x, y) on the layer with the placement offset
GetTileFromXY(x, y) ==
    /\ last' = [Call("getTileFromXY", LayerNode, FALSE, NoVisits) EXCEPT
                   !.arg = Point(x, y),
                   !.ret = getTileFromXY(layer, x, y)]
    /\ UNCHANGED <<tvars, mvars, cvars, bvars, rvars, lvars>>

\* the same on the object layer
GetTileFromXYObject(x, y) ==
    /\ last' = [Call("getTileFromXYObject", LayerNode, FALSE, NoVisits) EXCEPT
                   !.arg = Point(x, y),
                   !.ret = getTileFromXYObject(layer, x, y)]
    /\ UNCHANGED <<tvars, mvars, cvars, bvars, rvars, lvars>>

\* Kiwi.Utils.GameMath.clamp(input, max, min)
clamp(input, max, min) ==
    IF input < min THEN min ELSE IF input > max THEN max ELSE input

\* Math.floor(a / b) and Math.ceil(a / b) for b > 0
Floor(a, b) == a \div b
Ceil(a, b) == -((-a) \div b)

MinOf(S) == CHOOSE v \in S : \A w \in S : v <= w
MaxOf(S) == CHOOSE v \in S : \A w \in S : v >= w

\* transformPointInPlace of a matrix with fractional entries on a point with
\* fractional coordinates
transformPointOverFrac(m, pt) ==
    [x |-> m.a * pt.x + m.c * pt.y + m.tx * pt.n,
     y |-> m.b * pt.x + m.d * pt.y + m.ty * pt.n,
     n |-> m.n * pt.n]

\* the corners of the stage, taken to the world by the camera's inverted
\* scratch matrix and on into the layer by the inverse of the layer's matrix m
localCorners(st, inverted, m) ==
    {transformPointOverFrac(invert(m), transformPointOverInPlace(inverted, c)) :
        c \in {Point(0, 0), Point(st.width, 0), Point(st.width, st.height), Point(0, st.height)}}

calculateBoundariesFloorMax(L, st, inverted, m) ==
    LET n == inverted.n * invert(m).n
        xs == {Sign(n) * c.x : c \in localCorners(st, inverted, m)}
        ys == {Sign(n) * c.y : c \in localCorners(st, inverted, m)}
        dx == Abs(n) * L.tileWidth
        dy == Abs(n) * L.tileHeight
    IN [startX |-> clamp(Floor(MinOf(xs), dx), L.width + L.offset.x, L.offset.x),
        startY |-> clamp(Floor(MinOf(ys), dy), L.height + L.offset.y, L.offset.y),
        maxX |-> clamp(Floor(MaxOf(xs), dx), L.width + L.offset.x, L.offset.x),
        maxY |-> clamp(Floor(MaxOf(ys), dy), L.height + L.offset.y, L.offset.y)]

\* _calculateBoundaries(camera, matrix), after the camera has cleaned: the
\* smallest and largest x and y of the four corners, divided by the tile
\* size, floored and ceiled, and clamped.  All corners have the denominator n.
calculateBoundaries(L, st, inverted, m) ==
    LET n == inverted.n * invert(m).n
        xs == {Sign(n) * c.x : c \in localCorners(st, inverted, m)}
        ys == {Sign(n) * c.y : c \in localCorners(st, inverted, m)}
        dx == Abs(n) * L.tileWidth
        dy == Abs(n) * L.tileHeight
    IN [startX |-> clamp(Floor(MinOf(xs), dx), L.width + L.offset.x, L.offset.x),
        startY |-> clamp(Floor(MinOf(ys), dy), L.height + L.offset.y, L.offset.y),
        maxX |-> clamp(Ceil(MaxOf(xs), dx), L.width + L.offset.x, L.offset.x),
        maxY |-> clamp(Ceil(MaxOf(ys), dy), L.height + L.offset.y, L.offset.y)]

\* the coordinates the two loops of renderGL visit, row by row
loopCoordinates(b) ==
    LET cols == IF b.maxX > b.startX THEN b.maxX - b.startX ELSE 0
        rows == IF b.maxY > b.startY THEN b.maxY - b.startY ELSE 0
    IN [i \in 1..(cols * rows) |-> [x |-> b.startX + ((i - 1) % cols),
                                    y |-> b.startY + ((i - 1) \div cols)]]

\* the 20 numbers renderGL pushes for the tile at (x, y)
tileVertices(L, m, x, y, al) ==
    LET type == getTileFromXY(L, x, y)
        tx == x * L.tileWidth + type.offset.x
        ty == y * L.tileHeight + type.offset.y
        corner1 == transformPointInPlace(m, Point(tx, ty))
        corner2 == transformPointInPlace(m, Point(tx + cell.w, ty))
        corner3 == transformPointInPlace(m, Point(tx + cell.w, ty + cell.h))
        corner4 == transformPointInPlace(m, Point(tx, ty + cell.h))
    IN <<corner1.x, corner1.y, cell.x, cell.y, al,
         corner2.x, corner2.y, cell.x + cell.w - 1, cell.y, al,
         corner3.x, corner3.y, cell.x + cell.w - 1, cell.y + cell.h - 1, al,
         corner4.x, corner4.y, cell.x, cell.y + cell.h - 1, al>>

\* renderGL(gl, camera): the layer's concatenated matrix, _calculateBoundaries
\* (whose first transformStageToWorld cleans a dirty camera), the loops and
\* concatBatch.  Reading cellIndex of a tile type that is undefined is a
\* TypeError, which ends renderGL before concatBatch.  Each value of the call is
\* bound once, as the one element of a set.
RenderGL ==
    /\ Len(items) < MaxRuns
    /\ LET rl == Clean(LayerNode)
           rc == IF rl.over \/ ~camDirty THEN rl ELSE getConcatenated(CamNode, 1, rl)
           sm == IF camDirty /\ ~rc.over
                 THEN [normal |-> rc.c[CamNode], inverted |-> invert(rc.c[CamNode])]
                 ELSE scratchMatrices
           HasCell(c) == getTileFromXY(layer, c.x, c.y).cellIndex # -1
       IN \E m \in {rc.c[LayerNode]} :
          \E b \in {IF rc.over THEN bounds ELSE calculateBoundaries(layer, stage, sm.inverted, m)} :
          \E visited \in {IF rc.over THEN <<>> ELSE loopCoordinates(b)} :
          \E missing \in {\E i \in DOMAIN visited :
                              getTileFromXY(layer, visited[i].x, visited[i].y) = Undefined} :
          \E drawn \in {IF missing THEN <<>> ELSE SelectSeq(visited, HasCell)} :
          \E vertexItems \in {[i \in DOMAIN drawn |->
                                  [repeat |-> 1,
                                   quad |-> tileVertices(layer, m, drawn[i].x, drawn[i].y, alpha)]]} :
             /\ matrix' = rc.m
             /\ cachedConcatenatedMatrix' = rc.c
             /\ dirty' = rc.d
             /\ scratchMatrices' = sm
             /\ camDirty' = IF rl.over THEN camDirty ELSE (camDirty /\ rc.over)
             /\ bounds' = b
             /\ items' = IF rc.over \/ missing THEN items ELSE items \o vertexItems
             /\ last' = [Call("renderGL", LayerNode, rc.over \/ missing, NoVisits) EXCEPT
                            !.arg = IF rc.over THEN NoValue ELSE visited,
                            !.ret = IF rc.over \/ missing THEN NoValue ELSE vertexItems]
             /\ UNCHANGED <<xy, scale, rotation, origin, pivotPoint, parent, children,
                            width, height, alpha, entity, layer, stage>>
             /\ UNCHANGED <<mvars, bvars>>

(***************************************************************************)
(* Spec: three transforms, every mutator, parent assignment and read.  The *)
(* mutators are called with the values the fields already hold.            *)
(***************************************************************************)
\* no Matrix instance besides those of the transforms
MatrixIdle ==
    /\ matA = identity
    /\ matB = identity
    /\ matInv = Over(identity, 1)

\* no camera: the fields as the field initialisers leave them
CameraIdle ==
    /\ camDirty = TRUE
    /\ scratchMatrices = [normal |-> identity, inverted |-> Over(identity, 1)]
    /\ width = 0
    /\ height = 0

\* no hit box: Box2 with the constructor's default arguments
BoxIdle ==
    /\ boxDirty = TRUE
    /\ boxOffset = Point(0, 0)
    /\ boxDimensions = Point(0, 0)
    /\ invertedTransformMatrix = NoValue

\* no renderer at work: an empty vertex buffer, an entity with the default alpha
RenderIdle ==
    /\ items = <<>>
    /\ alpha = 1
    /\ entity = Sprite

\* no tile layer: a layer of no tiles that has never been rendered
TileIdle ==
    /\ layer = [tileWidth |-> 32, tileHeight |-> 32, width |-> 0, height |-> 0,
                offset |-> Point(0, 0), data |-> [length |-> 0, types |-> <<0>>]]
    /\ stage = [width |-> 0, height |-> 0]
    /\ bounds = NoValue

Init ==
    /\ TransformInit
    /\ MatrixIdle
    /\ CameraIdle
    /\ BoxIdle
    /\ RenderIdle
    /\ TileIdle
    /\ last = Call("new", Null, FALSE, NoVisits)

Mutate(n) ==
    \/ SetOrigin(n, Point(0, 0))
    \/ SetOriginXY(n, 0, 0)
    \/ SetPivotPoint(n, Point(0, 0))
    \/ SetScaleX(n, 1)
    \/ SetScaleY(n, 1)
    \/ SetScale(n, 1)
    \/ SetXYPoint(n, Point(0, 0))
    \/ SetX(n, 0)
    \/ SetY(n, 0)
    \/ SetXY(n, 0, 0)
    \/ SetRotation(n, 0)
    \/ SetRotationRad(n, 0)
    \/ Translate(n, Point(0, 0))
    \/ SetTransform(n, 0, 0, 1, 1, 0, 0, 0)

Next ==
    \E n \in Nodes :
        \/ Mutate(n)
        \/ \E value \in Nodes \cup {Null} : SetParent(n, value)
        \/ GetConcatenatedMatrix(n)

Spec == Init /\ [][Next]_vars

(***************************************************************************)
(* SpecMove: the same three transforms; one of them is moved along x, all  *)
(* are reparented and read.                                                *)
(***************************************************************************)
Movers == {1}

NextMove ==
    \E n \in Nodes :
        \/ \E value \in 0..MaxCoord : n \in Movers /\ SetX(n, value)
        \/ \E value \in Nodes \cup {Null} : SetParent(n, value)
        \/ GetConcatenatedMatrix(n)

SpecMove == Init /\ [][NextMove]_vars

(***************************************************************************)
(* SpecLocal: a transform holds every combination of field values (as left *)
(* there by the setters) and is read.                                      *)
(***************************************************************************)
Coords == (-MaxCoord)..MaxCoord
Scales == 1..MaxScale
QuarterTurns == 0..3
\* the transform whose fields vary
Subject == 1

InitLocal ==
    /\ \E x, y \in 0..MaxCoord, sx, sy \in Scales, rot \in QuarterTurns, ox, oy, px, py \in Coords :
          /\ xy = [n \in Nodes |-> IF n = Subject THEN Point(x, y) ELSE Point(0, 0)]
          /\ scale = [n \in Nodes |-> IF n = Subject THEN Point(sx, sy) ELSE Point(1, 1)]
          /\ rotation = [n \in Nodes |-> IF n = Subject THEN rot ELSE 0]
          /\ origin = [n \in Nodes |-> IF n = Subject THEN Point(ox, oy) ELSE Point(0, 0)]
          /\ pivotPoint = [n \in Nodes |-> IF n = Subject THEN Point(px, py) ELSE Point(0, 0)]
    /\ dirty = [n \in Nodes |-> TRUE]
    /\ parent = [n \in Nodes |-> Null]
    /\ children = [n \in Nodes |-> <<>>]
    /\ matrix = [n \in Nodes |-> identity]
    /\ cachedConcatenatedMatrix = [n \in Nodes |-> identity]
    /\ MatrixIdle
    /\ CameraIdle
    /\ BoxIdle
    /\ RenderIdle
    /\ TileIdle
    /\ last = Call("new", Null, FALSE, NoVisits)

NextLocal == GetConcatenatedMatrix(Subject)

SpecLocal == InitLocal /\ [][NextLocal]_vars

(***************************************************************************)
(* SpecMatrix: two matrices with every combination of entries, multiplied  *)
(* with multiplyMatrix and combined the way getConcatenatedMatrix combines *)
(* a parent's matrix with a child's.                                       *)
(***************************************************************************)
Entries01 == 0..MatEntry
Matrices == {Matrix(a, b, c, d, tx, ty) : a \in Entries01, b \in Entries01, c \in Entries01,
                                          d \in Entries01, tx \in Entries01, ty \in Entries01}

InitMatrix ==
    /\ TransformInit
    /\ matA \in Matrices
    /\ matB \in Matrices
    /\ matInv = Over(identity, 1)
    /\ CameraIdle
    /\ BoxIdle
    /\ RenderIdle
    /\ TileIdle
    /\ last = Call("new", Null, FALSE, NoVisits)

\* matA.multiplyMatrix(matB)
MultiplyMatrix ==
    /\ last' = [Call("multiplyMatrix", Null, FALSE, NoVisits) EXCEPT
                   !.arg = [this |-> matA, b |-> matB],
                   !.ret = multiplyMatrix(matA, matB)]
    /\ UNCHANGED <<tvars, mvars, cvars, bvars, rvars, lvars>>

\* a child whose local matrix is matB, under a parent whose concatenated
\* matrix is matA: parent.getConcatenatedMatrix().multiplyMatrix(cached)
Concatenate ==
    /\ last' = [Call("concatenate", Null, FALSE, NoVisits) EXCEPT
                   !.arg = [this |-> matA, b |-> matB],
                   !.ret = concatWithParent(matA, matB)]
    /\ UNCHANGED <<tvars, mvars, cvars, bvars, rvars, lvars>>

NextMatrix == MultiplyMatrix \/ Concatenate

SpecMatrix == InitMatrix /\ [][NextMatrix]_vars

(***************************************************************************)
(* SpecInvert: a matrix matA with every combination of small entries, and  *)
(* matInv, a clone of it that is inverted in place again and again; matA   *)
(* is also multiplied with its inverted copy, on either side.              *)
(***************************************************************************)
InvEntries == 0..(MatEntry + 1)
InvMatrices == {Matrix(a, b, c, d, tx, ty) : a \in InvEntries, b \in InvEntries, c \in InvEntries,
                                             d \in InvEntries, tx \in InvEntries, ty \in InvEntries}

\* new Matrix(a, b, c, d, tx, ty) and its clone()
InitInvert ==
    /\ TransformInit
    /\ matA \in InvMatrices
    /\ matB = identity
    /\ matInv = Over(matA, 1)
    /\ CameraIdle
    /\ BoxIdle
    /\ RenderIdle
    /\ TileIdle
    /\ last = Call("new", Null, FALSE, NoVisits)

\* matInv.invert(): overwrites the instance and returns it; nothing in it throws
Invert ==
    /\ matInv' = invertOver(matInv)
    /\ last' = [Call("invert", Null, FALSE, NoVisits) EXCEPT
                   !.arg = matInv,
                   !.ret = invertOver(matInv)]
    /\ UNCHANGED <<tvars, matA, matB, cvars, bvars, rvars, lvars>>

invertCopyGuarded(m) ==
    IF m.a * m.d - m.b * m.c = 0 THEN Over(m, 1) ELSE invertOver(Over(m, 1))

\* matA.invertCopy(): this.clone().invert()
invertCopy(m) == invertOver(Over(m, 1))

InvertCopy ==
    /\ last' = [Call("invertCopy", Null, FALSE, NoVisits) EXCEPT
                   !.arg = Over(matA, 1),
                   !.ret = invertCopy(matA)]
    /\ UNCHANGED <<tvars, mvars, cvars, bvars, rvars, lvars>>

\* matA.multiplyMatrix(matA.invertCopy())
TimesInverse ==
    /\ last' = [Call("timesInverse", Null, FALSE, NoVisits) EXCEPT
                   !.arg = Over(matA, 1),
                   !.ret = multiplyOver(Over(matA, 1), invertCopy(matA))]
    /\ UNCHANGED <<tvars, mvars, cvars, bvars, rvars, lvars>>

\* matA.invertCopy().multiplyMatrix(matA)
InverseTimes ==
    /\ last' = [Call("inverseTimes", Null, FALSE, NoVisits) EXCEPT
                   !.arg = Over(matA, 1),
                   !.ret = multiplyOver(invertCopy(matA), Over(matA, 1))]
    /\ UNCHANGED <<tvars, mvars, cvars, bvars, rvars, lvars>>

NextInvert == Invert \/ InvertCopy \/ TimesInverse \/ InverseTimes

SpecInvert == InitInvert /\ [][NextInvert]_vars

(***************************************************************************)
(* SpecCamera: a camera, moved, scaled, turned, put under a parent that is *)
(* moved, resized and asked to map points both ways.                       *)
(***************************************************************************)
StageSizes == {<<800, 600>>, <<400, 300>>}
CamPositions == {0, 100}
StagePoints == {Point(0, 0), Point(10, 20)}

InitCamera ==
    /\ CameraInit(0, 0, 800, 600)
    /\ MatrixIdle
    /\ BoxIdle
    /\ RenderIdle
    /\ TileIdle
    /\ last = Call("new", CamNode, FALSE, NoVisits)

\* the setters of Transformable hand over to the transform
CameraMutate ==
    \/ \E value \in CamPositions : SetX(CamNode, value)
    \/ \E value \in Scales : SetScale(CamNode, value)
    \/ \E value \in {0, 90} : SetRotation(CamNode, value)
    \/ \E value \in {CamParent, Null} : SetParent(CamNode, value)
    \/ \E value \in CamPositions : SetX(CamParent, value)

NextCamera ==
    \/ CameraMutate
    \/ \E sz \in StageSizes : UpdatedStageSize(sz[1], sz[2])
    \/ \E pt \in StagePoints, copy \in BOOLEAN : TransformStageToWorld(pt, copy)
    \/ \E pt \in StagePoints, copy \in BOOLEAN : TransformWorldToStage(pt, copy)
    \/ TransformBack

SpecCamera == InitCamera /\ [][NextCamera]_vars

(***************************************************************************)
(* SpecBox: a hit box of 32 by 32 at offset (0,0) or (10,10); its owner    *)
(* is moved, scaled and put under a parent that is moved, and points are   *)
(* checked.                                                                *)
(***************************************************************************)
BoxOffsets == {0, 10}
OwnerPositions == {0, 100}
CheckPoints == {Point(v, v) : v \in {99, 100, 115, 135}} \cup {Point(115, 100), Point(241, 115)}

InitBox ==
    /\ TransformInit
    /\ MatrixIdle
    /\ CameraIdle
    /\ \E o \in BoxOffsets : BoxInit(o, o, 32, 32)
    /\ RenderIdle
    /\ TileIdle
    /\ last = Call("new", BoxOwner, FALSE, NoVisits)

OwnerMutate ==
    \/ \E v \in OwnerPositions : SetXY(BoxOwner, v, v)
    \/ \E value \in Scales : SetScaleX(BoxOwner, value)
    \/ \E value \in {OwnerParent, Null} : SetParent(BoxOwner, value)
    \/ \E value \in OwnerPositions : SetX(OwnerParent, value)

NextBox ==
    \/ OwnerMutate
    \/ \E pt \in CheckPoints : Check(pt)

SpecBox == InitBox /\ [][NextBox]_vars

(***************************************************************************)
(* SpecFlat: the same hit box on an owner that is moved and scaled on x,   *)
(* also to nothing, under a parent that is flattened on y, and points are  *)
(* checked.                                                                *)
(***************************************************************************)
FlatMutate ==
    \/ \E v \in OwnerPositions : SetXY(BoxOwner, v, v)
    \/ \E value \in 0..MaxScale : SetScaleX(BoxOwner, value)
    \/ \E value \in {OwnerParent, Null} : SetParent(BoxOwner, value)
    \/ \E value \in 0..1 : SetScaleY(OwnerParent, value)

NextFlat ==
    \/ FlatMutate
    \/ \E pt \in CheckPoints : Check(pt)

SpecFlat == InitBox /\ [][NextFlat]_vars

(***************************************************************************)
(* SpecRender: frames of clear, addToBatch, concatBatch and draw.  What is *)
(* handed to concatBatch is the quad of one tile, once or as many times as *)
(* the index buffer has quads.                                             *)
(***************************************************************************)
tileQuad == <<0, 0, 0, 0, 1,  32, 0, 31, 0, 1,  32, 32, 31, 31, 1,  0, 32, 0, 31, 1>>
BatchQuads == {1, maxItems * vertsPerQuad}
Alphas == (-1)..2

InitRender ==
    /\ TransformInit
    /\ MatrixIdle
    /\ CameraIdle
    /\ BoxIdle
    /\ RenderIdle
    /\ TileIdle
    /\ last = Call("new", Null, FALSE, NoVisits)

NextRender ==
    \/ \E value \in Alphas : SetAlpha(value)
    \/ \E value \in 0..MaxCoord : SetX(EntityNode, value)
    \/ SetParent(EntityNode, EntityParent)
    \/ Clear
    \/ AddToBatch
    \/ \E q \in BatchQuads : ConcatBatch(<<[repeat |-> q, quad |-> tileQuad]>>)
    \/ Draw

SpecRender == InitRender /\ [][NextRender]_vars

(***************************************************************************)
(* SpecEntity: an entity without an atlas, with an atlas without cells and *)
(* with the atlas of two cells; its cellIndex, width and height are        *)
(* assigned in any order.                                                  *)
(***************************************************************************)
Entities == {Entity,
             [Entity EXCEPT !.hasAtlas = TRUE],
             [Entity EXCEPT !.hasAtlas = TRUE, !.atlas = cells]}
CellIndexArguments == (-1)..2
Sizes == {0, 10, 20}

InitEntity ==
    /\ TransformInit
    /\ MatrixIdle
    /\ CameraIdle
    /\ BoxIdle
    /\ TileIdle
    /\ items = <<>>
    /\ alpha = 1
    /\ entity \in Entities
    /\ last = Call("new", EntityNode, FALSE, NoVisits)

NextEntity ==
    \/ \E val \in CellIndexArguments : SetCellIndex(val)
    \/ \E value \in Sizes : SetWidth(value)
    \/ \E value \in Sizes : SetHeight(value)

SpecEntity == InitEntity /\ [][NextEntity]_vars

(***************************************************************************)
(* SpecTile: a stage of 800 by 600, a camera and a tile layer placed,      *)
(* scaled and turned at the start, and frames of clear and renderGL.  The  *)
(* layers: 100 by 100 tiles, all of type 1; 4 by 3 tiles at offset         *)
(* (-1, -2), of types 1 and 0 in turn; 30 by 20 tiles with data for the    *)
(* first 100 only; 4 by 3 tiles of a type the tilemap does not have.       *)
(***************************************************************************)
TileLayer(w, h, x, y, length, types) ==
    [tileWidth |-> 32, tileHeight |-> 32, width |-> w, height |-> h,
     offset |-> Point(x, y), data |-> [length |-> length, types |-> types]]

Layers == {TileLayer(100, 100, 0, 0, 10000, <<1>>),
           TileLayer(4, 3, -1, -2, 12, <<1, 0>>),
           TileLayer(30, 20, 0, 0, 100, <<1>>),
           TileLayer(4, 3, 0, 0, 12, <<2>>)}
LayerPositions == {0, 48}

InitTile ==
    /\ \E cx \in CamPositions, cs \in Scales, cr \in {0, 1}, lx \in LayerPositions, ls \in Scales :
          /\ xy = [n \in Nodes |-> IF n = CamNode THEN Point(cx, 0)
                                   ELSE IF n = LayerNode THEN Point(lx, 0) ELSE Point(0, 0)]
          /\ scale = [n \in Nodes |-> IF n = CamNode THEN Point(cs, cs)
                                      ELSE IF n = LayerNode THEN Point(ls, ls) ELSE Point(1, 1)]
          /\ rotation = [n \in Nodes |-> IF n = CamNode THEN cr ELSE 0]
    /\ origin = [n \in Nodes |-> IF n = CamNode THEN Point(-400, -300) ELSE Point(0, 0)]
    /\ pivotPoint = [n \in Nodes |-> IF n = CamNode THEN Point(-400, -300) ELSE Point(0, 0)]
    /\ dirty = [n \in Nodes |-> TRUE]
    /\ parent = [n \in Nodes |-> Null]
    /\ children = [n \in Nodes |-> <<>>]
    /\ matrix = [n \in Nodes |-> identity]
    /\ cachedConcatenatedMatrix = [n \in Nodes |-> identity]
    /\ camDirty = TRUE
    /\ scratchMatrices = [normal |-> identity, inverted |-> Over(identity, 1)]
    /\ width = 800
    /\ height = 600
    /\ MatrixIdle
    /\ BoxIdle
    /\ items = <<>>
    /\ alpha = 1
    /\ entity = Sprite
    /\ layer \in Layers
    /\ stage = [width |-> 800, height |-> 600]
    /\ bounds = NoValue
    /\ last = Call("new", LayerNode, FALSE, NoVisits)

NextTile ==
    \/ RenderGL
    \/ Clear
    \/ \E value \in Alphas : SetAlpha(value)

SpecTile == InitTile /\ [][NextTile]_vars

(***************************************************************************)
(* SpecGrid: layers of up to MaxTiles by MaxTiles - 1 tiles with data for  *)
(* every tile, at several placement offsets, and a lookup of every         *)
(* coordinate in and around them.                                          *)
(***************************************************************************)
GridLayers == {TileLayer(w, h, x, y, w * h, types) :
                  w \in 1..MaxTiles, h \in 1..(MaxTiles - 1), x \in {0, -1}, y \in {0, 2},
                  types \in {<<1>>, <<1, 0>>}}
GridCoordinates == (-1)..MaxTiles
TileTypeArguments == 0..2

InitGrid ==
    /\ TransformInit
    /\ MatrixIdle
    /\ CameraIdle
    /\ BoxIdle
    /\ RenderIdle
    /\ layer \in GridLayers
    /\ stage = [width |-> 0, height |-> 0]
    /\ bounds = NoValue
    /\ last = Call("new", LayerNode, FALSE, NoVisits)

NextGrid ==
    \/ \E x \in GridCoordinates, y \in GridCoordinates : GetTileFromXY(x, y)
    \/ \E x \in GridCoordinates, y \in GridCoordinates : GetTileFromXYObject(x, y)
    \/ \E types \in {<<>>, <<0>>, <<0, 1>>} :
          \/ RandomizeTiles(types, 0, 0, layer.width, layer.height)
          \/ RandomizeTiles(types, 1, 0, 1, 1)
    \/ \E typeA \in TileTypeArguments, typeB \in TileTypeArguments :
          \/ ReplaceTiles(typeA, typeB, 0, 0, layer.width, layer.height)
          \/ ReplaceTiles(typeA, typeB, 0, 1, 1, 1)
    \/ \E typeA \in TileTypeArguments, typeB \in TileTypeArguments :
          \/ SwapTiles(typeA, typeB, 0, 0, layer.width, layer.height)
          \/ SwapTiles(typeA, typeB, 0, 1, 1, 1)

SpecGrid == InitGrid /\ [][NextGrid]_vars

(***************************************************************************)
(* The parent chain of a transform and the matrix it stands for            *)
(***************************************************************************)
RECURSIVE ReachesNull(_, _)
ReachesNull(n, fuel) ==
    IF n = Null THEN TRUE
    ELSE IF fuel = 0 THEN FALSE
    ELSE ReachesNull(parent[n], fuel - 1)

\* the parent references form a forest
IsForest == \A n \in Nodes : ReachesNull(n, NumNodes)

\* n is t or an ancestor of t
InChain(n, t) == isSelfOrAncestor(n, t, NumNodes)

\* product, root first, of the local matrices of n's ancestors and n
RECURSIVE ChainProduct(_, _)
ChainProduct(n, fuel) ==
    IF parent[n] = Null \/ fuel = 0 THEN Local(n)
    ELSE multiplyMatrix(ChainProduct(parent[n], fuel - 1), Local(n))

Expected(n) == ChainProduct(n, NumNodes)

\* C1: in a tree of transforms, a call of getConcatenatedMatrix() on a node
\* returns the product, root first, of the local matrices of its current
\* ancestor chain and of itself, computed from the current field values.
C1_ReadReflectsCurrentFields ==
    (last.op = "read" /\ IsForest)
        => (~last.threw /\ last.ret = Expected(last.node))

\* C2: after a call of a mutator or a parent assignment on n, dirty is true on
\* n and on every transform that has n in its parent chain (stated here for
\* the states whose parent references form a forest).
C2_MutatorDirtiesSubtree ==
    (last.op \in {"set", "parent"} /\ IsForest)
        => \A d \in Nodes : InChain(last.node, d) => dirty[d]

\* C3: following parent references from any transform ends at null: no
\* sequence of parent assignments makes a transform its own ancestor.
C3_NoTransformIsItsOwnAncestor == IsForest

\* C5: right after a call of getConcatenatedMatrix() on a transform, a second
\* call returns the same Matrix instance with the same six values and does not
\* recompute: no local matrix is rebuilt, no matrix is allocated, dirty stays
\* false.
C5_SecondReadIsCached ==
    last.op = "read"
        => LET r == Clean(last.node)
           IN /\ ~last.threw
              /\ ~r.over
              /\ r.rebuilt = {}
              /\ r.alloc = {}
              /\ r.c[last.node] = last.ret
              /\ ~dirty[last.node]

\* C6: one invalidation of n (one mutator call) calls the dirty setter of each
\* descendant of n exactly once (stated here for the states whose parent
\* references form a forest).
C6_CascadeVisitsOnce ==
    (last.op \in {"set", "parent"} /\ IsForest)
        => \A d \in Nodes \ {last.node} :
               InChain(last.node, d) => last.visits[d] = 1

(***************************************************************************)
(* The elementary matrices a local matrix is composed of                   *)
(***************************************************************************)
translate(p) == Matrix(1, 0, 0, 1, p.x, p.y)
scaleBy(sc) == Matrix(sc.x, 0, 0, sc.y, 0, 0)
\* the rotation _performTransformation applies: a = cos, b = -sin, c = sin, d = cos
rotate(q) == Matrix(Cos(q), -Sin(q), Sin(q), Cos(q), 0, 0)
\* the rotation in the other direction
rotateBack(q) == Matrix(Cos(q), Sin(q), -Sin(q), Cos(q), 0, 0)
negate(p) == Point(-p.x, -p.y)

RECURSIVE product(_)
product(ms) == IF Len(ms) = 1 THEN ms[1] ELSE multiplyMatrix(ms[1], product(Tail(ms)))

\* translate(origin) . translate(position) . rot . scale . translate(-origin) .
\* translate(-pivot), with rot one reading of rotate(pivot)
ClaimedOrder(n, rot) ==
    product(<<translate(origin[n]), translate(xy[n]), rot, scaleBy(scale[n]),
              translate(negate(origin[n])), translate(negate(pivotPoint[n]))>>)

aboutPivot(n, rot) == product(<<translate(pivotPoint[n]), rot, translate(negate(pivotPoint[n]))>>)

\* C9 as claimed: the local matrix a read leaves in _matrix equals
\* translate(origin) . translate(position) . rotate(pivot) . scale .
\* translate(-origin) . translate(-pivot), for rotate(pivot) read as the plain
\* rotation or as the rotation about the pivot, in either direction.
C9_LocalMatrixClaimedOrder ==
    (last.op = "read" /\ ~last.threw)
        => LET n == last.node
           IN \/ matrix[n] = ClaimedOrder(n, rotate(rotation[n]))
              \/ matrix[n] = ClaimedOrder(n, rotateBack(rotation[n]))
              \/ matrix[n] = ClaimedOrder(n, aboutPivot(n, rotate(rotation[n])))
              \/ matrix[n] = ClaimedOrder(n, aboutPivot(n, rotateBack(rotation[n])))

\* translate(position) . translate(origin) . scale . translate(-origin) .
\* translate(pivot) . rotate . translate(-pivot)
CodeOrder(n) ==
    product(<<translate(xy[n]), translate(origin[n]), scaleBy(scale[n]),
              translate(negate(origin[n])), translate(pivotPoint[n]),
              rotate(rotation[n]), translate(negate(pivotPoint[n]))>>)

\* C9 as amended: the local matrix a read leaves in _matrix equals
\* translate(position) . translate(origin) . scale . translate(-origin) .
\* translate(pivot) . rotate . translate(-pivot), where rotate has a = cos,
\* b = -sin, c = sin, d = cos: a point is rotated about the pivot first, then
\* scaled about the origin, then moved by the position.
C9_LocalMatrixCodeOrder ==
    (last.op = "read" /\ ~last.threw) => matrix[last.node] = CodeOrder(last.node)

\* a read of a transform with a pivot, a quarter turn and unequal scales
C9_Witness ==
    /\ last.op = "read"
    /\ last.node = Subject
    /\ pivotPoint[Subject] = Point(1, -1)
    /\ origin[Subject] = Point(-1, 1)
    /\ scale[Subject] = Point(1, 2)
    /\ rotation[Subject] = 1
    /\ matrix[Subject] = Matrix(0, -2, 1, 0, 2, 0)

TestPoints == {Point(x, y) : x \in (-1)..1, y \in (-1)..1}

SamePoint(p, q) ==
    /\ p.n # 0
    /\ q.n # 0
    /\ p.x * q.n = q.x * p.n
    /\ p.y * q.n = q.y * p.n

\* C4: transformWorldToStage(p) returns the camera's current concatenated
\* matrix applied to p, and transformStageToWorld(p) the inverse of that
\* current matrix applied to p, whatever was changed on the camera's transform
\* or on an ancestor before the call.
C4_CameraMatricesNeverStale ==
    /\ (last.op = "transformWorldToStage" /\ IsForest)
           => /\ ~last.threw
              /\ last.ret = transformPoint(Expected(CamNode), last.arg.pt)
    /\ (last.op = "transformStageToWorld" /\ IsForest)
           => /\ ~last.threw
              /\ SamePoint(last.ret, transformPointOver(invert(Expected(CamNode)), last.arg.pt))

\* strictly inside the rectangle from offset to offset + dimensions
StrictlyInside(localPt, offset, dimensions) ==
    /\ Above(localPt.x, localPt.n, offset.x)
    /\ Below(localPt.x, localPt.n, offset.x + dimensions.x)
    /\ Above(localPt.y, localPt.n, offset.y)
    /\ Below(localPt.y, localPt.n, offset.y + dimensions.y)

\* C8: check(p) returns true exactly when p, mapped through the inverse of
\* the owner's current concatenated matrix, lies strictly between offset and
\* offset + dimensions on both axes, for every offset.
C8_CheckIsStrictContainment ==
    (last.op = "check" /\ IsForest)
        => /\ ~last.threw
           /\ last.ret = StrictlyInside(transformPointOver(invert(Expected(BoxOwner)), last.arg),
                                        boxOffset, boxDimensions)

\* C7: the index count a draw() requests never exceeds the number of indices
\* in the index buffer.
C7_DrawStaysWithinIndexBuffer ==
    last.op = "draw" => last.ret <= indexBufferLength

\* the determinant of a matrix with fractional entries, times n * n
Det(mo) == mo.a * mo.d - mo.b * mo.c

\* C11: for a matrix m whose determinant is not zero, m.invertCopy() times m
\* and m times m.invertCopy() are both the identity matrix, and inverting an
\* inverted matrix in place gives back the matrix it was inverted from.
C11_InverseIsTwoSided ==
    /\ (last.op \in {"timesInverse", "inverseTimes"} /\ Det(last.arg) # 0)
           => last.ret = Over(identity, 1)
    /\ (last.op = "invert" /\ last.arg.n # 0 /\ Det(last.arg) # 0)
           => /\ last.ret.n # 0
              /\ invertOver(last.ret) = last.arg
              /\ matInv = last.ret

\* a matrix of determinant 2 with a translation, inverted twice: the second
\* invert gave back the matrix itself
C11_Witness ==
    /\ last.op = "invert"
    /\ matA = Matrix(1, 1, 0, 2, 1, 2)
    /\ last.arg = Over(Matrix(2, -1, 0, 1, -2, -1), 2)
    /\ last.ret = Over(matA, 1)
    /\ matInv = Over(matA, 1)

\* C12: invert and invertCopy on a matrix whose determinant is exactly zero
\* do not throw; every entry of the result is Infinity, -Infinity or NaN.
C12_SingularInvertIsNonFinite ==
    (last.op \in {"invert", "invertCopy"} /\ last.arg.n # 0 /\ Det(last.arg) = 0)
        => /\ ~last.threw
           /\ last.ret.n = 0

\* invert on the matrix (1, 0, 0, 0, 0, 0): d is +Infinity, the rest is NaN
C12_Witness ==
    /\ last.op = "invert"
    /\ last.arg = Over(Matrix(1, 0, 0, 0, 0, 0), 1)
    /\ last.ret = Over(Matrix(0, 0, 0, 1, 0, 0), 0)
    /\ matInv = last.ret

\* C13: a check on an owner whose concatenated matrix has a determinant of
\* zero does not throw and returns false, whatever the point.
C13_DegenerateCheckIsFalse ==
    /\ (last.op = "check" /\ IsForest /\ Det(Expected(BoxOwner)) = 0) => ~last.threw
    /\ (last.op = "check" /\ ~last.threw /\ Det(cachedConcatenatedMatrix[BoxOwner]) = 0)
           => last.ret = FALSE

\* a check of a point whose local coordinates are both NaN: the owner has a
\* scale of 0 on x, and the inverse of its matrix has no finite entry
C13_Witness ==
    /\ last.op = "check"
    /\ last.ret = FALSE
    /\ scale[BoxOwner].x = 0
    /\ parent[BoxOwner] = Null
    /\ invertedTransformMatrix.n = 0
    /\ transformPointOver(invertedTransformMatrix, last.arg) = [x |-> 0, y |-> 0, n |-> 0]

\* a check under a parent with a scale of 0 on y
C13_WitnessAncestor ==
    /\ last.op = "check"
    /\ last.ret = FALSE
    /\ scale[BoxOwner] = Point(1, 1)
    /\ parent[BoxOwner] = OwnerParent
    /\ scale[OwnerParent].y = 0
    /\ invertedTransformMatrix.n = 0

\* C14: after the resize handler has run, the camera's dirty flag is true, so
\* that the next transformStageToWorld or transformWorldToStage computes both
\* scratch matrices anew.
C14_ResizeMarksCameraDirty ==
    (last.op = "resize" /\ ~last.threw) => camDirty

\* C15: after construction and after every resize to (width, height) the
\* camera's width and height are the new values and the origin and the pivot
\* of its transform are both (width / 2, height / 2).
C15_CameraCentredOnHalfSize ==
    (last.op \in {"new", "resize"} /\ last.node = CamNode /\ ~last.threw)
        => /\ last.op = "resize" => (width = last.arg.width /\ height = last.arg.height)
           /\ origin[CamNode] = Point(width \div 2, height \div 2)
           /\ pivotPoint[CamNode] = Point(width \div 2, height \div 2)

\* C16: with nothing done to the camera between the two calls, a point taken
\* from the world to the stage and back, or from the stage to the world and
\* back, is the point it was, for a camera whose matrix can be inverted.
C16_RoundTripIsIdentity ==
    (/\ last.op \in {"worldToStageToWorld", "stageToWorldToStage"}
     /\ ~last.threw
     /\ Det(scratchMatrices.normal) # 0)
        => SamePoint(last.ret, [x |-> last.arg.from.x, y |-> last.arg.from.y, n |-> 1])

\* the point (10, 20) taken to the world and back by a camera moved to x = 100,
\* scaled by 2 and turned by a quarter
C16_Witness ==
    /\ last.op = "stageToWorldToStage"
    /\ last.arg.from = Point(10, 20)
    /\ xy[CamNode].x = 100
    /\ scale[CamNode] = Point(2, 2)
    /\ rotation[CamNode] = 1
    /\ scratchMatrices.normal = Expected(CamNode)
    /\ scratchMatrices.inverted.n = 4
    /\ ~SamePoint(last.arg.pt, [x |-> 10, y |-> 20, n |-> 1])
    /\ SamePoint(last.ret, [x |-> 10, y |-> 20, n |-> 1])

\* C17: with copy = true the two calls leave the argument point as it was;
\* with copy = false the argument point holds the result afterwards; in both
\* modes the result is the scratch matrix applied to the coordinates the
\* argument had before the call.
C17_CopyOrInPlace ==
    (last.op \in {"transformStageToWorld", "transformWorldToStage"} /\ ~last.threw)
        => /\ last.arg.copy => last.arg.after = last.arg.pt
           /\ ~last.arg.copy => last.arg.after = last.ret
           /\ last.op = "transformWorldToStage"
                  => last.ret = transformPoint(scratchMatrices.normal, last.arg.pt)
           /\ last.op = "transformStageToWorld"
                  => last.ret = transformPointOver(scratchMatrices.inverted, last.arg.pt)

\* the point (10, 20) overwritten in place by a camera turned by a quarter
C17_Witness ==
    /\ last.op = "transformWorldToStage"
    /\ ~last.arg.copy
    /\ last.arg.pt = Point(10, 20)
    /\ rotation[CamNode] = 1
    /\ scratchMatrices.normal = Expected(CamNode)
    /\ last.arg.after = transformPoint(Expected(CamNode), Point(10, 20))
    /\ last.arg.after # last.arg.pt

\* the corners of the stage in the pixel space of the layer, by the matrices
\* the camera and the layer have by their fields
ViewCorners ==
    localCorners(stage, invert(Expected(CamNode)), Expected(LayerNode))

\* the tile column x, or row y, shares more than an edge with the bounding
\* box of the corners
OverlapsColumn(x) ==
    /\ \E c \in ViewCorners : Below(c.x, c.n, (x + 1) * layer.tileWidth)
    /\ \E c \in ViewCorners : Above(c.x, c.n, x * layer.tileWidth)
OverlapsRow(y) ==
    /\ \E c \in ViewCorners : Below(c.y, c.n, (y + 1) * layer.tileHeight)
    /\ \E c \in ViewCorners : Above(c.y, c.n, y * layer.tileHeight)

C19_ScenarioRange ==
    (/\ last.op = "renderGL"
     /\ layer = TileLayer(100, 100, 0, 0, 10000, <<1>>)
     /\ stage = [width |-> 800, height |-> 600]
     /\ Expected(CamNode) = identity
     /\ Expected(LayerNode) = identity)
        => /\ bounds.maxX - bounds.startX >= 26
           /\ bounds.maxY - bounds.startY >= 20
           /\ 0 <= bounds.startX /\ bounds.maxX <= 100
           /\ 0 <= bounds.startY /\ bounds.maxY <= 100

\* C20: renderGL does not throw; a coordinate of the range without a tile
\* type adds nothing, and every coordinate with a tile type that has a cell
\* adds its 20 numbers.
C20_MissingTilesAreSkipped ==
    last.op = "renderGL"
        => /\ ~last.threw
           /\ Len(last.ret)
                  = Cardinality({i \in DOMAIN last.arg :
                        /\ getTileFromXY(layer, last.arg[i].x, last.arg[i].y) # Undefined
                        /\ getTileFromXY(layer, last.arg[i].x, last.arg[i].y).cellIndex # -1})

QuadOf(c, m, al) ==
    LET type == getTileFromXY(layer, c.x, c.y)
        tx == c.x * layer.tileWidth + type.offset.x
        ty == c.y * layer.tileHeight + type.offset.y
        topLeft == transformPoint(m, Point(tx, ty))
        topRight == transformPoint(m, Point(tx + cell.w, ty))
        bottomRight == transformPoint(m, Point(tx + cell.w, ty + cell.h))
        bottomLeft == transformPoint(m, Point(tx, ty + cell.h))
    IN <<topLeft.x, topLeft.y, cell.x, cell.y, al,
         topRight.x, topRight.y, cell.x + cell.w - 1, cell.y, al,
         bottomRight.x, bottomRight.y, cell.x + cell.w - 1, cell.y + cell.h - 1, al,
         bottomLeft.x, bottomLeft.y, cell.x, cell.y + cell.h - 1, al>>

\* the coordinates of the visited ones that have a tile type with a cell
WithCell(visited) ==
    LET Has(c) == /\ getTileFromXY(layer, c.x, c.y) # Undefined
                  /\ getTileFromXY(layer, c.x, c.y).cellIndex # -1
    IN SelectSeq(visited, Has)

\* C22: renderGL visits the range row by row, and appends to the records
\* already batched, in that order, the four records of every visited
\* coordinate whose tile type has a cell: the corners (tx, ty), (tx + w, ty),
\* (tx + w, ty + h), (tx, ty + h) through the layer's concatenated matrix, the
\* cell's texture coordinates with the far edges one less, the layer's alpha.
C22_RenderAppendsQuadsInOrder ==
    [][last'.op = "renderGL"
         => /\ \A i \in 1..(Len(last'.arg) - 1) :
                  \/ last'.arg[i].y < last'.arg[i + 1].y
                  \/ /\ last'.arg[i].y = last'.arg[i + 1].y
                     /\ last'.arg[i].x < last'.arg[i + 1].x
            /\ {last'.arg[i] : i \in DOMAIN last'.arg}
                   = {Point(x, y) : x \in bounds'.startX..(bounds'.maxX - 1),
                                    y \in bounds'.startY..(bounds'.maxY - 1)}
            /\ \E drawn \in {WithCell(last'.arg)} :
                  items' = items \o [i \in DOMAIN drawn |->
                                        [repeat |-> 1,
                                         quad |-> QuadOf(drawn[i],
                                                         cachedConcatenatedMatrix'[LayerNode],
                                                         alpha)]]]_vars

\* C23: addToBatch for an entity with alpha > 0 appends one quad of four
\* records: the corners (0,0), (w,0), (w,h), (0,h) of the cell through the
\* entity's concatenated matrix, the entity's alpha, and texture coordinates
\* whose far edges are one less than the cell's (cell.x + cell.w - 1,
\* cell.y + cell.h - 1).
C23_AddToBatchInsetsFarEdge ==
    [][last'.op = "addToBatch" /\ alpha > 0
         => LET m == cachedConcatenatedMatrix'[EntityNode]
                topLeft == transformPoint(m, Point(0, 0))
                topRight == transformPoint(m, Point(cell.w, 0))
                bottomRight == transformPoint(m, Point(cell.w, cell.h))
                bottomLeft == transformPoint(m, Point(0, cell.h))
            IN items' = Append(items,
                   [repeat |-> 1,
                    quad |-> <<topLeft.x, topLeft.y, cell.x, cell.y, alpha,
                               topRight.x, topRight.y, cell.x + cell.w - 1, cell.y, alpha,
                               bottomRight.x, bottomRight.y, cell.x + cell.w - 1,
                                   cell.y + cell.h - 1, alpha,
                               bottomLeft.x, bottomLeft.y, cell.x, cell.y + cell.h - 1,
                                   alpha>>])]_vars

\* the number of quads in the vertex buffer: four records of five numbers each
RECURSIVE Quads(_)
Quads(it) == IF it = <<>> THEN 0 ELSE Head(it).repeat + Quads(Tail(it))

\* C24: draw() requests (vertexCount / 4) * 6 indices, six for every quad in
\* the buffer: 18 for three quads, 0 for an empty buffer.
C24_DrawRequestsSixPerQuad ==
    last.op = "draw"
        => /\ last.ret = 6 * Quads(items)
           /\ \A i \in DOMAIN items : Len(items[i].quad) = 4 * bufferItemSize

\* a draw of three quads, which requests 18 indices
C24_Witness ==
    /\ last.op = "draw"
    /\ Len(items) = 3
    /\ Quads(items) = 3
    /\ last.ret = 18

\* C25: clear() leaves the vertex buffer empty whatever addToBatch and
\* concatBatch had put there, and a draw() right after it requests 0 indices.
C25_ClearEmptiesBuffer ==
    [][/\ last'.op = "clear" => items' = <<>>
       /\ last.op = "clear" /\ last'.op = "draw" => last'.ret = 0]_vars

\* a clear() after an addToBatch that computed the entity's matrix and put
\* its quad into the buffer
C25_Witness ==
    /\ last.op = "clear"
    /\ items = <<>>
    /\ ~dirty[EntityNode]

\* C26: addToBatch for an entity with alpha <= 0 leaves the vertex buffer, the
\* dirty flags and the matrices of every transform as they are.
C26_InvisibleEntityIsSkipped ==
    [][last'.op = "addToBatch" /\ alpha <= 0
         => UNCHANGED <<items, dirty, matrix, cachedConcatenatedMatrix>>]_vars

\* addToBatch of an invisible entity whose transform and parent are dirty
C26_Witness ==
    /\ last.op = "addToBatch"
    /\ alpha <= 0
    /\ parent[EntityNode] = EntityParent
    /\ dirty[EntityNode]
    /\ dirty[EntityParent]
    /\ xy[EntityNode] # Point(0, 0)

\* the answers of the object layer: countTiles for no type and for each type,
\* and getTileFromXY for every coordinate in and around the layer
Answers(L) ==
    [count |-> [type \in {<<>>} \cup {<<t>> : t \in TileTypeArguments} |-> countTiles(L, type)],
     tile |-> [c \in GridCoordinates \X GridCoordinates |-> getTileFromXYObject(L, c[1], c[2])]]

C28_CellIndexNamesACell ==
    [][/\ last'.op = "cellIndex" /\ entity.hasAtlas
          => IF last'.arg \in DOMAIN entity.atlas
             THEN /\ entity'.cellIndex = last'.arg
                  /\ entity'.width = entity.atlas[last'.arg].w
                  /\ entity'.height = entity.atlas[last'.arg].h
                  /\ last'.logged = <<>>
             ELSE /\ entity'.cellIndex = entity.cellIndex
                  /\ entity'.width = entity.width
                  /\ entity'.height = entity.height
                  /\ last'.logged # <<>>
       /\ entity.hasAtlas /\ entity.cellIndex \in DOMAIN entity.atlas
          => entity'.cellIndex \in DOMAIN entity'.atlas]_vars

\* cellIndex = 2 refused on the atlas of two cells, after cellIndex = 1 was
\* taken and the width was changed by hand
C28_Witness ==
    /\ last.op = "cellIndex"
    /\ last.arg = 2
    /\ last.logged # <<>>
    /\ entity.atlas = cells
    /\ entity.cellIndex = 1
    /\ entity.width = 10
    /\ entity.height = 48

\* C29: after every step a transform whose dirty flag is false has a parent
\* whose dirty flag is false, and so only clean ancestors; a read of n's
\* matrix clears the flag of n and of transforms in n's parent chain only.
C29_CleanBelowCleanOnly ==
    [][/\ \A n \in Nodes : (~dirty'[n] /\ parent'[n] # Null) => ~dirty'[parent'[n]]
       /\ last'.op = "read"
          => \A t \in Nodes : (dirty[t] /\ ~dirty'[t]) => InChain(t, last'.node)]_vars

\* the number of entries of t in the child collection of p
Count(p, t) == Cardinality({i \in DOMAIN children[p] : children[p][i] = t})

\* C30: the child collection of every transform p holds the transforms whose
\* parent is p, each once, and nothing else.
C30_ChildrenMirrorParents ==
    \A p \in Nodes : \A t \in Nodes : Count(p, t) = IF parent[t] = p THEN 1 ELSE 0

====
